---- MODULE Spec2Model ----
(***************************************************************************)
(* A model of the OAuth 1.0 request-signing core of oauth1-request:        *)
(*   - the HMAC-SHA1 signer (src/signature_method/hmac_sha1.rs) and the    *)
(*     Sign trait with its provided methods (src/signature_method/mod.rs); *)
(*   - the derive generator that merges the mandated oauth_* parameters    *)
(*     into the field list (oauth1-request-derive/src/method_body.rs).     *)
(* Text is modelled by TLA+ strings, byte order by the ASCII table below.  *)
(***************************************************************************)
EXTENDS Integers, Sequences, FiniteSets, TLC

VARIABLES
    mode,        \* which caller drives the signer
    script,      \* the calls a scripted caller is going to make
    signer,      \* "unborn", "live", "consumed" or "panicked" (HmacSha1Sign)
    secrets,     \* the arguments HmacSha1Sign::new was given
    mac,         \* HmacSha1Sign.mac: the key and the bytes fed so far
    prev,        \* mac before the last call
    calls,       \* the calls made on the signer, in order
    signature,   \* HmacSha1Signature returned by finish
    varkey,      \* the call of Hmac::new_varkey made by new, and its outcome
    fields,      \* MethodBody.fields
    gpc,         \* position of to_tokens
    idx,         \* index of the field the for loop is at
    next_param,  \* the cursor over the mandated parameters
    tokens,      \* the calls generated so far
    inst,        \* the struct the generated body runs on: the fields' values
    rpc,         \* the generated statement the body is at
    results      \* what the statements of the fields did, in order

vars == <<mode, script, signer, secrets, mac, prev, calls, signature, varkey,
          fields, gpc, idx, next_param, tokens, inst, rpc, results>>

signerVars ==
    <<mode, script, signer, secrets, mac, prev, calls, signature, varkey>>
genVars == <<fields, gpc, idx, next_param, tokens>>
execVars == <<inst, rpc, results>>

(***************************************************************************)
(* Bounds.                                                                 *)
(***************************************************************************)
MaxCalls == 3
MaxFields == 2
MaxExecFields == 1

(***************************************************************************)
(* Text: bytes, ordering, decimal rendering, percent-encoding.             *)
(***************************************************************************)
\* the printable ASCII bytes 32..95 and 97..126, in byte order
AsciiLow ==
    " !\"#$%&'()*+,-./0123456789:;<=>?@ABCDEFGHIJKLMNOPQRSTUVWXYZ[\\]^_"
AsciiHigh == "abcdefghijklmnopqrstuvwxyz{|}~"

CharAt(s, i) == SubSeq(s, i, i)

Chars == { CharAt(AsciiLow, i) : i \in 1..Len(AsciiLow) }
             \cup { CharAt(AsciiHigh, i) : i \in 1..Len(AsciiHigh) }

\* the byte value of a one-character string
Ord ==
    [c \in Chars |->
        IF \E i \in 1..Len(AsciiLow) : CharAt(AsciiLow, i) = c
        THEN 31 + (CHOOSE i \in 1..Len(AsciiLow) : CharAt(AsciiLow, i) = c)
        ELSE 96 + (CHOOSE i \in 1..Len(AsciiHigh) : CharAt(AsciiHigh, i) = c)]

\* str::cmp: byte-lexicographic order, a proper prefix is smaller
RECURSIVE StrLess(_, _)
StrLess(a, b) ==
    IF b = "" THEN FALSE
    ELSE IF a = "" THEN TRUE
    ELSE IF Head(a) = Head(b) THEN StrLess(Tail(a), Tail(b))
    ELSE Ord[Head(a)] < Ord[Head(b)]

StrLeq(a, b) == a = b \/ StrLess(a, b)

Digits == "0123456789"

\* Display for u64: decimal, no leading zeros
RECURSIVE ToDecimal(_)
ToDecimal(n) ==
    IF n < 10 THEN CharAt(Digits, n + 1)
    ELSE ToDecimal(n \div 10) \o CharAt(Digits, (n % 10) + 1)

HexDigits == "0123456789ABCDEF"

Unreserved ==
    { c \in Chars :
        \/ (Ord[c] >= 48 /\ Ord[c] <= 57)
        \/ (Ord[c] >= 65 /\ Ord[c] <= 90)
        \/ (Ord[c] >= 97 /\ Ord[c] <= 122)
        \/ Ord[c] \in {45, 46, 95, 126} }

\* util::PercentEncode: RFC 3986 unreserved bytes kept, the rest %XX
RECURSIVE PercentEncode(_)
PercentEncode(s) ==
    IF s = "" THEN ""
    ELSE LET c == Head(s)
         IN  (IF c \in Unreserved THEN c
              ELSE "%" \o CharAt(HexDigits, (Ord[c] \div 16) + 1)
                       \o CharAt(HexDigits, (Ord[c] % 16) + 1))
             \o PercentEncode(Tail(s))

LowerCase == "abcdefghijklmnopqrstuvwxyz"
UpperCase == "ABCDEFGHIJKLMNOPQRSTUVWXYZ"

\* UPPER of the specification: ASCII upper-casing
RECURSIVE Upper(_)
Upper(s) ==
    IF s = "" THEN ""
    ELSE LET c == Head(s)
         IN  (IF \E i \in 1..26 : CharAt(LowerCase, i) = c
              THEN CharAt(UpperCase, CHOOSE i \in 1..26 : CharAt(LowerCase, i) = c)
              ELSE c)
             \o Upper(Tail(s))

(***************************************************************************)
(* Values passed as `impl Display`.                                        *)
(***************************************************************************)
Str(s) == [t |-> "str", s |-> s, n |-> 0]
U64(n) == [t |-> "u64", s |-> "", n |-> n]
NoValue == Str("")

\* what `{}` writes for the value
Display(v) == IF v.t = "u64" THEN ToDecimal(v.n) ELSE v.s

\* a Display implementation may hand its text to the writer in pieces
Chunks(s, i) == <<SubSeq(s, 1, i), SubSeq(s, i + 1, Len(s))>>

None == [some |-> FALSE, v |-> NoValue]
Some(v) == [some |-> TRUE, v |-> v]

(***************************************************************************)
(* HmacSha1Sign.                                                           *)
(***************************************************************************)
signing_key_join(cs, ts) ==
    LET t == IF ts.some THEN Display(ts.v) ELSE ""
    IN  IF Display(cs) = "" THEN t
        ELSE IF t = "" THEN Display(cs)
        ELSE Display(cs) \o "&" \o t
signing_key_bare(cs, ts) ==
    IF ts.some THEN Display(cs) \o "&" \o Display(ts.v) ELSE Display(cs)
signing_key(cs, ts) ==
    LET ret == Display(cs) \o "&"
    IN  IF ts.some THEN ret \o Display(ts.v) ELSE ret

NoMac == [key |-> "", data |-> ""]

\* Hmac::new_varkey returns a Result: the keyed state, or the error of a key
\* the primitive does not accept (`accepted` is the primitive's decision)
new_varkey(key, accepted) ==
    IF accepted THEN [ok |-> TRUE, value |-> [key |-> key, data |-> ""]]
    ELSE [ok |-> FALSE, value |-> NoMac]

HmacSha1Sign_new_lenient(cs, ts, accepted) ==
    [panic |-> FALSE, sign |-> [key |-> signing_key(cs, ts), data |-> ""]]
\* HmacSha1Sign::new: unwrap panics on the error, else the signer is built
HmacSha1Sign_new(cs, ts, accepted) ==
    LET r == new_varkey(signing_key(cs, ts), accepted)
    IN  IF r.ok THEN [panic |-> FALSE, sign |-> r.value]
        ELSE [panic |-> TRUE, sign |-> NoMac]

\* Mac::input
input(m, bytes) == [m EXCEPT !.data = @ \o bytes]

write_str_overwrite(m, s) == [m EXCEPT !.data = s]
\* MacWrite::write_str
write_str(m, s) == input(m, s)

RECURSIVE write_all_reversed(_, _)
write_all_reversed(m, pieces) ==
    IF pieces = <<>> THEN m
    ELSE write_str(write_all_reversed(m, Tail(pieces)), Head(pieces))
RECURSIVE write_all(_, _)
write_all(m, pieces) ==
    IF pieces = <<>> THEN m
    ELSE write_all(write_str(m, Head(pieces)), Tail(pieces))

request_method_upper(m, method) == input(input(m, Upper(method)), "&")
request_method(m, method) == input(input(m, method), "&")

uri_encoding(m, pieces) ==
    write_str(write_all(m, <<PercentEncode(pieces[1] \o pieces[2])>>), "&")
\* write!(MacWrite(mac), "{}&", uri), the text of uri arriving as `pieces`
uri(m, pieces) == write_str(write_all(m, pieces), "&")

parameter_no_key(m, key, pieces) == write_all(input(m, "%3D"), pieces)
parameter_omit_empty(m, key, pieces) ==
    IF pieces[1] \o pieces[2] = "" THEN input(m, key)
    ELSE write_all(input(input(m, key), "%3D"), pieces)
parameter(m, key, pieces) ==
    write_all(input(input(m, key), "%3D"), pieces)

delimit(m) == input(m, "%26")

\* Mac::result().code(): the tag of `data` under `key`, kept symbolic
Hmac(key, data) == [done |-> TRUE, key |-> key, msg |-> data]
NoSignature == [done |-> FALSE, key |-> "", msg |-> ""]

finish(m) == Hmac(m.key, m.data)

\* Base64Display::standard over the digest, kept symbolic like the digest
Base64(sig) == [base64 |-> sig]

\* Display for HmacSha1Signature: PercentEncode(Base64Display(signature))
fmt(sig) == [percent_encoded |-> Base64(sig)]

\* the provided methods of Sign: each forwards to parameter
callback(m, default_key, pieces) == parameter(m, default_key, pieces)
consumer_key(m, default_key, pieces) == parameter(m, default_key, pieces)
nonce(m, default_key, pieces) == parameter(m, default_key, pieces)
signature_method(m, default_key, pieces) == parameter(m, default_key, pieces)
timestamp_delimited(m, default_key, pieces) ==
    delimit(parameter(m, default_key, pieces))
timestamp(m, default_key, pieces) == parameter(m, default_key, pieces)
token(m, default_key, pieces) == parameter(m, default_key, pieces)
verifier(m, default_key, pieces) == parameter(m, default_key, pieces)
version(m, default_key, pieces) == parameter(m, default_key, pieces)

(***************************************************************************)
(* The mandated parameters (util::OAuthParameter).                         *)
(***************************************************************************)
OAuthParameters ==
    <<"callback", "consumer_key", "nonce", "signature_method",
      "timestamp", "token", "verifier", "version", "None">>

Mandated == { OAuthParameters[i] : i \in 1..8 }

\* OAuthParameter::as_str
as_str(p) == "oauth_" \o p

(***************************************************************************)
(* Callers of the signer.                                                  *)
(***************************************************************************)
Call(op, k, v) == [op |-> op, k |-> k, v |-> v]
Delimit == Call("delimit", "", NoValue)

Range(f) == { f[i] : i \in 1..Len(f) }

\* the call sequence of the documentation of Sign
DocExample ==
    << Call("request_method", "POST", NoValue),
       Call("uri", "", Str("http%3A%2F%2Fexample.com%2Frequest")),
       Call("parameter", "a", Str("r%2520b")), Delimit,
       Call("parameter", "a2", Str("a")), Delimit,
       Call("consumer_key", "oauth_consumer_key", Str("9djdj82h48djs9d2")), Delimit,
       Call("nonce", "oauth_nonce", Str("7d8f3e4a")), Delimit,
       Call("signature_method", "oauth_signature_method", Str("HMAC-SHA1")), Delimit,
       Call("timestamp", "oauth_timestamp", U64(137131201)), Delimit,
       Call("token", "oauth_token", Str("kkk9d7dh3k39sjv7")), Delimit,
       Call("parameter", "z", Str("")) >>

DocBaseString ==
    "POST&http%3A%2F%2Fexample.com%2Frequest&a%3Dr%2520b%26a2%3Da"
    \o "%26oauth_consumer_key%3D9djdj82h48djs9d2%26oauth_nonce%3D7d8f3e4a"
    \o "%26oauth_signature_method%3DHMAC-SHA1%26oauth_timestamp%3D137131201"
    \o "%26oauth_token%3Dkkk9d7dh3k39sjv7%26z%3D"

\* the end-to-end scenario, the URI given raw or already percent-encoded
EndToEnd(u) ==
    << Call("request_method", "GET", NoValue),
       Call("uri", "", Str(u)),
       Call("nonce", "oauth_nonce", Str("abc")), Delimit,
       Call("timestamp", "oauth_timestamp", U64(123456789)) >>

RawUri == "http://example.com/"
EncodedUri == "http%3A%2F%2Fexample.com%2F"

EndToEndBaseString ==
    "GET&http%3A%2F%2Fexample.com%2F&oauth_nonce%3Dabc%26oauth_timestamp%3D123456789"

\* two parameters with a delimiter between them
PairParams ==
    { Call("parameter", "a", Str("1")),
      Call("parameter", "b", Str("1")),
      Call("parameter", "z", Str("")),
      Call("nonce", "oauth_nonce", Str("abc")),
      Call("parameter", "a", Str("b%3Dc")),
      Call("parameter", "a%3Db", Str("c%26a%3Db%3Dc")) }

PairScripts == { <<p, Delimit, q>> : p \in PairParams, q \in PairParams }

MandatedValue(p) ==
    IF p = "timestamp" THEN U64(12)
    ELSE IF p = "signature_method" THEN Str("HMAC-SHA1")
    ELSE IF p = "version" THEN Str("1.0")
    ELSE Str("v w")

\* what the unscripted caller may call
FreeCalls ==
    { Call("request_method", k, NoValue) : k \in {"GET", "get"} }
    \cup { Call("uri", "", Str(u)) : u \in {RawUri, EncodedUri} }
    \cup { Call("parameter", k, Str(v)) : k \in {"a", "b c"}, v \in {"", "r b"} }
    \cup { Delimit }
    \cup { Call(p, as_str(p), MandatedValue(p)) : p \in Mandated }
    \cup { Call(p, "x", MandatedValue(p)) : p \in {"nonce", "version"} }

ConsumerSecrets == { Str("cs"), Str(""), Str("c&s") }
TokenSecrets == { None, Some(Str("ts")), Some(Str("")), Some(Str("t s")) }

Scripted == {"doc", "e2e", "e2e_raw", "pair"}
Modes == Scripted \cup {"free", "keys"}

ScriptsOf(md) ==
    IF md = "doc" THEN {DocExample}
    ELSE IF md = "e2e" THEN {EndToEnd(EncodedUri)}
    ELSE IF md = "e2e_raw" THEN {EndToEnd(RawUri)}
    ELSE IF md = "pair" THEN PairScripts
    ELSE {<<>>}

SecretsOf(md) ==
    IF md = "keys"
    THEN { [cs |-> c, ts |-> t] : c \in ConsumerSecrets, t \in TokenSecrets }
    ELSE IF md = "doc" THEN { [cs |-> Str(""), ts |-> Some(Str(""))] }
    ELSE { [cs |-> Str("cs"), ts |-> None] }

NoSecrets == [cs |-> NoValue, ts |-> None]
NoVarkey == [called |-> FALSE, key |-> "", ok |-> FALSE]

Permit(c) ==
    \/ mode = "free" /\ Len(calls) < MaxCalls /\ c \in FreeCalls
    \/ mode \in Scripted /\ Len(calls) < Len(script) /\ script[Len(calls) + 1] = c

CallsOf(op) == { c \in FreeCalls \cup Range(script) : c.op = op }

Splits(v) == 0..Len(Display(v))

(***************************************************************************)
(* The signer as a state machine.                                          *)
(***************************************************************************)
SignerInit ==
    /\ mode \in Modes
    /\ script \in ScriptsOf(mode)
    /\ signer = "unborn"
    /\ secrets = NoSecrets
    /\ mac = NoMac
    /\ prev = NoMac
    /\ calls = <<>>
    /\ signature = NoSignature
    /\ varkey = NoVarkey

ExecIdle ==
    /\ inst = <<>>
    /\ rpc = 0
    /\ results = <<>>

GenIdle ==
    /\ fields = <<>>
    /\ gpc = "idle"
    /\ idx = 1
    /\ next_param = "callback"
    /\ tokens = <<>>
    /\ ExecIdle

Init == SignerInit /\ GenIdle

New ==
    /\ signer = "unborn"
    /\ \E sc \in SecretsOf(mode), accepted \in BOOLEAN :
        LET built == HmacSha1Sign_new(sc.cs, sc.ts, accepted)
        IN  /\ secrets' = sc
            /\ varkey' = [called |-> TRUE, key |-> signing_key(sc.cs, sc.ts),
                          ok |-> accepted]
            /\ mac' = built.sign
            /\ signer' = IF built.panic THEN "panicked" ELSE "live"
    /\ prev' = mac
    /\ UNCHANGED <<mode, script, calls, signature>>
    /\ UNCHANGED <<genVars, execVars>>

Fed(c, m) ==
    /\ signer = "live"
    /\ Permit(c)
    /\ mac' = m
    /\ prev' = mac
    /\ calls' = Append(calls, c)
    /\ UNCHANGED <<mode, script, signer, secrets, signature, varkey>>
    /\ UNCHANGED <<genVars, execVars>>

RequestMethod ==
    \E c \in CallsOf("request_method") : Fed(c, request_method(mac, c.k))

Uri ==
    \E c \in CallsOf("uri") : \E i \in Splits(c.v) :
        Fed(c, uri(mac, Chunks(Display(c.v), i)))

Parameter ==
    \E c \in CallsOf("parameter") : \E i \in Splits(c.v) :
        Fed(c, parameter(mac, c.k, Chunks(Display(c.v), i)))

DelimitCall ==
    \E c \in CallsOf("delimit") : Fed(c, delimit(mac))

CallbackCall ==
    \E c \in CallsOf("callback") : \E i \in Splits(c.v) :
        Fed(c, callback(mac, c.k, Chunks(Display(c.v), i)))

ConsumerKeyCall ==
    \E c \in CallsOf("consumer_key") : \E i \in Splits(c.v) :
        Fed(c, consumer_key(mac, c.k, Chunks(Display(c.v), i)))

NonceCall ==
    \E c \in CallsOf("nonce") : \E i \in Splits(c.v) :
        Fed(c, nonce(mac, c.k, Chunks(Display(c.v), i)))

SignatureMethodCall ==
    \E c \in CallsOf("signature_method") : \E i \in Splits(c.v) :
        Fed(c, signature_method(mac, c.k, Chunks(Display(c.v), i)))

TimestampCall ==
    \E c \in CallsOf("timestamp") : \E i \in Splits(c.v) :
        Fed(c, timestamp(mac, c.k, Chunks(Display(c.v), i)))

TokenCall ==
    \E c \in CallsOf("token") : \E i \in Splits(c.v) :
        Fed(c, token(mac, c.k, Chunks(Display(c.v), i)))

VerifierCall ==
    \E c \in CallsOf("verifier") : \E i \in Splits(c.v) :
        Fed(c, verifier(mac, c.k, Chunks(Display(c.v), i)))

VersionCall ==
    \E c \in CallsOf("version") : \E i \in Splits(c.v) :
        Fed(c, version(mac, c.k, Chunks(Display(c.v), i)))

\* finish taking the signer by reference instead of by value
Finish_by_ref ==
    /\ signer = "live"
    /\ mode \in Scripted => Len(calls) = Len(script)
    /\ signature' = finish(mac)
    /\ UNCHANGED <<mode, script, signer, secrets, mac, prev, calls, varkey>>
    /\ UNCHANGED <<genVars, execVars>>

Finish ==
    /\ signer = "live"
    /\ mode \in Scripted => Len(calls) = Len(script)
    /\ signature' = finish(mac)
    /\ signer' = "consumed"
    /\ UNCHANGED <<mode, script, secrets, mac, prev, calls, varkey>>
    /\ UNCHANGED <<genVars, execVars>>

Next ==
    \/ New
    \/ RequestMethod
    \/ Uri
    \/ Parameter
    \/ DelimitCall
    \/ CallbackCall
    \/ ConsumerKeyCall
    \/ NonceCall
    \/ SignatureMethodCall
    \/ TimestampCall
    \/ TokenCall
    \/ VerifierCall
    \/ VersionCall
    \/ Finish

Spec == Init /\ [][Next]_vars

(***************************************************************************)
(* MethodBody::to_tokens: the generator of the serializer calls.           *)
(***************************************************************************)
\* OAuthParameter::default
default_param == OAuthParameters[1]

\* OAuthParameter::next
next(p) ==
    IF p = "None" THEN "None"
    ELSE OAuthParameters[(CHOOSE i \in 1..8 : OAuthParameters[i] = p) + 1]

\* PartialOrd<str> for OAuthParameter: None is greater than every name
compare(p, name) ==
    IF p = "None" THEN "Greater"
    ELSE IF as_str(p) = name THEN "Equal"
    ELSE IF StrLess(as_str(p), name) THEN "Less"
    ELSE "Greater"

interleave_cond_le(np, name) == compare(np, name) \in {"Less", "Equal"}
interleave_cond_never(np, name) == FALSE
\* while next_param < *name.value()
interleave_cond(np, name) == compare(np, name) = "Less"

tail_cond_never(np) == FALSE
\* while next_param != OAuthParameter::None
tail_cond(np) == np # "None"

Field(name, skip, option, skip_if, encoded) ==
    [name |-> name, skip |-> skip, option |-> option,
     skip_if |-> skip_if, encoded |-> encoded]

FieldNames == {"a", "oauth_nonce", "oauth_o", "oauth_version", "z"}

FieldSet ==
    { Field(n, FALSE, FALSE, FALSE, FALSE) : n \in FieldNames }
    \cup { Field(n, TRUE, FALSE, FALSE, FALSE) : n \in FieldNames }
    \cup { Field(n, FALSE, TRUE, TRUE, FALSE) : n \in FieldNames }
    \cup { Field(n, FALSE, FALSE, FALSE, TRUE) : n \in FieldNames }

FieldLists ==
    UNION { [1..n -> FieldSet] : n \in 0..MaxFields }

\* #ser.#next_param();
MandatedToken(p) ==
    [call |-> "mandated", name |-> p, is_some |-> FALSE, skip_if |-> FALSE,
     guards |-> <<>>, unwrap |-> FALSE]

\* the statement with the skip_if test wrapped around the is_some test
FieldToken_guard_inside(f) ==
    [call |-> IF f.encoded THEN "serialize_parameter_encoded"
              ELSE "serialize_parameter",
     name |-> f.name, is_some |-> f.option, skip_if |-> f.skip_if,
     guards |-> (IF f.skip_if THEN <<"skip_if">> ELSE <<>>)
                    \o (IF f.option THEN <<"is_some">> ELSE <<>>),
     unwrap |-> f.option]
\* the statement generated for a field: the serializer call, wrapped in the
\* skip_if test and then in the is_some test (`guards`, outermost first);
\* `unwrap` tells whether the value expression unwraps the option
FieldToken(f) ==
    [call |-> IF f.encoded THEN "serialize_parameter_encoded"
              ELSE "serialize_parameter",
     name |-> f.name, is_some |-> f.option, skip_if |-> f.skip_if,
     guards |-> (IF f.option THEN <<"is_some">> ELSE <<>>)
                    \o (IF f.skip_if THEN <<"skip_if">> ELSE <<>>),
     unwrap |-> f.option]

\* #ser.end()
EndToken ==
    [call |-> "end", name |-> "", is_some |-> FALSE, skip_if |-> FALSE,
     guards |-> <<>>, unwrap |-> FALSE]

SignerIdle ==
    /\ mode = "idle"
    /\ script = <<>>
    /\ signer = "unborn"
    /\ secrets = NoSecrets
    /\ mac = NoMac
    /\ prev = NoMac
    /\ calls = <<>>
    /\ signature = NoSignature
    /\ varkey = NoVarkey

GenInit ==
    /\ fields \in FieldLists
    /\ gpc = "run"
    /\ idx = 1
    /\ next_param = default_param
    /\ tokens = <<>>
    /\ SignerIdle
    /\ ExecIdle

InLoop == gpc = "run" /\ idx <= Len(fields)
AfterLoop == gpc = "run" /\ idx > Len(fields)

\* a skipped field that still moves the cursor
SkipField_moves_cursor ==
    /\ InLoop
    /\ fields[idx].skip
    /\ idx' = idx + 1
    /\ next_param' = next(next_param)
    /\ UNCHANGED <<fields, gpc, tokens>>
    /\ UNCHANGED <<signerVars, execVars>>

\* if f.meta.skip { return; }
SkipField ==
    /\ InLoop
    /\ fields[idx].skip
    /\ idx' = idx + 1
    /\ UNCHANGED <<fields, gpc, next_param, tokens>>
    /\ UNCHANGED <<signerVars, execVars>>

\* a turn of the while loop that forgets next_param = next_param.next()
Interleave_stuck ==
    /\ InLoop
    /\ ~fields[idx].skip
    /\ interleave_cond(next_param, fields[idx].name)
    /\ tokens' = Append(tokens, MandatedToken(next_param))
    /\ UNCHANGED <<fields, gpc, idx, next_param>>
    /\ UNCHANGED <<signerVars, execVars>>

\* one turn of the while loop inside the closure
Interleave ==
    /\ InLoop
    /\ ~fields[idx].skip
    /\ interleave_cond(next_param, fields[idx].name)
    /\ tokens' = Append(tokens, MandatedToken(next_param))
    /\ next_param' = next(next_param)
    /\ UNCHANGED <<fields, gpc, idx>>
    /\ UNCHANGED <<signerVars, execVars>>

\* the rest of the closure: the statement of the field
EmitField ==
    /\ InLoop
    /\ ~fields[idx].skip
    /\ ~interleave_cond(next_param, fields[idx].name)
    /\ tokens' = Append(tokens, FieldToken(fields[idx]))
    /\ idx' = idx + 1
    /\ UNCHANGED <<fields, gpc, next_param>>
    /\ UNCHANGED <<signerVars, execVars>>

\* one turn of the while loop after the fields
Remaining ==
    /\ AfterLoop
    /\ tail_cond(next_param)
    /\ tokens' = Append(tokens, MandatedToken(next_param))
    /\ next_param' = next(next_param)
    /\ UNCHANGED <<fields, gpc, idx>>
    /\ UNCHANGED <<signerVars, execVars>>

End ==
    /\ AfterLoop
    /\ ~tail_cond(next_param)
    /\ tokens' = Append(tokens, EndToken)
    /\ gpc' = "done"
    /\ UNCHANGED <<fields, idx, next_param>>
    /\ UNCHANGED <<signerVars, execVars>>

GenNext ==
    \/ SkipField
    \/ Interleave
    \/ EmitField
    \/ Remaining
    \/ End

GenSpec == GenInit /\ [][GenNext]_vars

\* to_tokens is a sequential function: it keeps running until it returns
GenFairSpec == GenSpec /\ WF_vars(GenNext)

\* to_tokens as a function of the field list
RECURSIVE to_tokens_from(_, _, _, _)
to_tokens_from(fs, i, np, out) ==
    IF i > Len(fs)
    THEN IF tail_cond(np)
         THEN to_tokens_from(fs, i, next(np), Append(out, MandatedToken(np)))
         ELSE Append(out, EndToken)
    ELSE IF fs[i].skip THEN to_tokens_from(fs, i + 1, np, out)
    ELSE IF interleave_cond(np, fs[i].name)
    THEN to_tokens_from(fs, i, next(np), Append(out, MandatedToken(np)))
    ELSE to_tokens_from(fs, i + 1, np, Append(out, FieldToken(fs[i])))

to_tokens(fs) == to_tokens_from(fs, 1, default_param, <<>>)

(***************************************************************************)
(* Properties of the signer (checked under Spec).                          *)
(***************************************************************************)
Last == calls[Len(calls)]
LastIs(op) == calls # <<>> /\ Last.op = op
Built == signer \in {"live", "consumed"}
Ran(md) == mode = md /\ Built /\ calls = script

\* C1 (as stated): request_method(m) feeds UPPER(m) and then '&', so a
\* lower-case method contributes the bytes of its upper-case form.
C1_UpperFed ==
    LastIs("request_method") => mac.data = prev.data \o Upper(Last.k) \o "&"

\* C1 (amended): request_method(m) feeds the bytes of m unchanged and then
\* '&'; the bytes are those of UPPER(m) exactly when m is upper-case already.
C1_MethodFedVerbatim ==
    LastIs("request_method") =>
        /\ mac = [prev EXCEPT !.data = @ \o Last.k \o "&"]
        /\ (mac.data = prev.data \o Upper(Last.k) \o "&") <=> (Last.k = Upper(Last.k))

C1_Witness ==
    /\ LastIs("request_method")
    /\ Last.k = "get"
    /\ mac.data = prev.data \o "get&"

\* C2 (as stated): uri(u) feeds percentEncode(u) and then '&', so the
\* end-to-end scenario given the raw URI yields the encoded base string.
C2_UriEncodedFed ==
    /\ LastIs("uri") =>
           mac.data = prev.data \o PercentEncode(Display(Last.v)) \o "&"
    /\ Ran("e2e_raw") => mac.data = EndToEndBaseString

\* C2 (amended): uri(u) feeds the text of u unchanged and then '&'; the
\* end-to-end scenario yields the base string when the URI is given
\* percent-encoded, and keeps the raw URI in the base string otherwise.
C2_UriFedVerbatim ==
    /\ LastIs("uri") =>
           mac = [prev EXCEPT !.data = @ \o Display(Last.v) \o "&"]
    /\ Ran("e2e") => mac.data = EndToEndBaseString
    /\ Ran("e2e_raw") =>
           mac.data = "GET&" \o RawUri
                        \o "&oauth_nonce%3Dabc%26oauth_timestamp%3D123456789"

C2_Witness ==
    /\ Ran("e2e")
    /\ script[2].v = Str(PercentEncode(RawUri))
    /\ mac.data = EndToEndBaseString

\* C3 (as stated): parameter(k, v) feeds percentEncode(k), "%3D" and
\* percentEncode(v).
C3_ParameterEncodedFed ==
    LastIs("parameter") =>
        mac.data = prev.data \o PercentEncode(Last.k) \o "%3D"
                     \o PercentEncode(Display(Last.v))

\* C3 (amended): parameter(k, v) feeds k unchanged, then "%3D", then the
\* text of v unchanged; with an empty value the "%3D" is still fed.
C3_ParameterFedVerbatim ==
    LastIs("parameter") =>
        /\ mac = [prev EXCEPT !.data = @ \o Last.k \o "%3D" \o Display(Last.v)]
        /\ Display(Last.v) = "" => mac.data = prev.data \o Last.k \o "%3D"

C3_Witness ==
    /\ LastIs("parameter")
    /\ Last.k = "b c"
    /\ Last.v = Str("")
    /\ mac.data = prev.data \o "b c%3D"

TokenSecretText == IF secrets.ts.some THEN Display(secrets.ts.v) ELSE ""

\* C4 (as stated): the signing key is percentEncode(cs) & percentEncode(ts),
\* each secret percent-encoded before joining.
C4_KeyEncoded ==
    Built =>
        mac.key = PercentEncode(Display(secrets.cs)) \o "&"
                    \o PercentEncode(TokenSecretText)

\* C4 (amended): the signing key is the text of cs, '&', and the text of ts
\* (empty when absent), joined as given: "cs" and no token secret give
\* "cs&", "cs" and "ts" give "cs&ts", and a '&' in a secret stays as it is.
C4_KeyJoinedVerbatim ==
    Built =>
        /\ mac.key = Display(secrets.cs) \o "&" \o TokenSecretText
        /\ (secrets.cs = Str("cs") /\ secrets.ts = None) => mac.key = "cs&"
        /\ (secrets.cs = Str("cs") /\ secrets.ts = Some(Str("ts")))
               => mac.key = "cs&ts"

C4_Witness ==
    /\ signer = "live"
    /\ secrets.cs = Str("c&s")
    /\ secrets.ts = Some(Str("ts"))
    /\ mac.key = "c&s&ts"

\* the signer's operations applied to a sequence of calls
Apply(m, c) ==
    CASE c.op = "request_method" -> request_method(m, c.k)
      [] c.op = "uri" -> uri(m, <<Display(c.v)>>)
      [] c.op = "parameter" -> parameter(m, c.k, <<Display(c.v)>>)
      [] c.op = "delimit" -> delimit(m)
      [] c.op = "callback" -> callback(m, c.k, <<Display(c.v)>>)
      [] c.op = "consumer_key" -> consumer_key(m, c.k, <<Display(c.v)>>)
      [] c.op = "nonce" -> nonce(m, c.k, <<Display(c.v)>>)
      [] c.op = "signature_method" -> signature_method(m, c.k, <<Display(c.v)>>)
      [] c.op = "timestamp" -> timestamp(m, c.k, <<Display(c.v)>>)
      [] c.op = "token" -> token(m, c.k, <<Display(c.v)>>)
      [] c.op = "verifier" -> verifier(m, c.k, <<Display(c.v)>>)
      [] c.op = "version" -> version(m, c.k, <<Display(c.v)>>)

RECURSIVE Replay(_, _)
Replay(m, cs) == IF cs = <<>> THEN m ELSE Replay(Apply(m, Head(cs)), Tail(cs))

Reversed(cs) == [i \in 1..Len(cs) |-> cs[Len(cs) + 1 - i]]

Contains(s, sub) ==
    \E i \in 1..(Len(s) - Len(sub) + 1) : SubSeq(s, i, i + Len(sub) - 1) = sub

\* the text holds neither of the separators the signer writes
Plain(s) == ~Contains(s, "%3D") /\ ~Contains(s, "%26")

OppositeOrder ==
    Replay(HmacSha1Sign_new(secrets.cs, secrets.ts, TRUE).sign, Reversed(script))

\* C8 (as stated): two parameters with different keys fed in one order and
\* in the opposite order give different base strings.
C8_OrderAlwaysChangesBytes ==
    (Ran("pair") /\ script[1].k # script[3].k) =>
        mac.data # OppositeOrder.data

\* C8 (amended): two parameters with different keys, whose keys and values
\* contain neither "%3D" nor "%26", fed in one order and in the opposite
\* order give different base strings.
C8_OrderChangesBytes ==
    (/\ Ran("pair")
     /\ script[1].k # script[3].k
     /\ \A i \in {1, 3} : Plain(script[i].k) /\ Plain(Display(script[i].v)))
        => mac.data # OppositeOrder.data

C8_Witness ==
    /\ Ran("pair")
    /\ script[1].op = "nonce"
    /\ script[3].k = "a"
    /\ mac.data = "oauth_nonce%3Dabc%26a%3D1"
    /\ OppositeOrder.data = "a%3D1%26oauth_nonce%3Dabc"

\* C9: a mandated-parameter operation called with key K and value V leaves
\* the signer in the state parameter(K, V) leaves it in.
C9_ProvidedIsParameter ==
    (calls # <<>> /\ Last.op \in Mandated) =>
        mac = parameter(prev, Last.k, <<Display(Last.v)>>)

C9_Witness ==
    /\ LastIs("timestamp")
    /\ prev.data # ""
    /\ mac.data = prev.data \o "oauth_timestamp%3D12"

\* what one call contributes to the base string
Contribution(c) ==
    IF c.op = "request_method" THEN c.k \o "&"
    ELSE IF c.op = "uri" THEN Display(c.v) \o "&"
    ELSE IF c.op = "delimit" THEN "%26"
    ELSE c.k \o "%3D" \o Display(c.v)

RECURSIVE BaseString(_)
BaseString(cs) ==
    IF cs = <<>> THEN "" ELSE Contribution(Head(cs)) \o BaseString(Tail(cs))

\* C10: the bytes the MAC has consumed are the contributions of the calls in
\* call order, however the text was cut into pieces; finish returns the MAC
\* of that base string under the signing key; the documented call sequence
\* gives the documented base string.
C10_MacConsumedBaseString ==
    /\ Built => mac.data = BaseString(calls)
    /\ signature.done =>
           signature = Hmac(signing_key(secrets.cs, secrets.ts), BaseString(calls))
    /\ Ran("doc") => mac.data = DocBaseString

C10_Witness ==
    /\ Ran("doc")
    /\ Len(calls) = 17
    /\ signature.done
    /\ signature.msg = DocBaseString

(***************************************************************************)
(* Properties of the generator (checked under GenSpec).                    *)
(***************************************************************************)
IsUser(t) == t.call \in {"serialize_parameter", "serialize_parameter_encoded"}
IsMandated(t) == t.call = "mandated"

\* the parameter name a generated call stands for
NameOf(t) == IF IsMandated(t) THEN as_str(t.name) ELSE t.name

VisitedBefore(p, i) == \E j \in 1..(i - 1) : tokens[j] = MandatedToken(p)
VisitedAfter(p, i) == \E j \in (i + 1)..Len(tokens) : tokens[j] = MandatedToken(p)

UserKeysSortedUpTo(i) ==
    \A a, b \in 1..i :
        (a < b /\ IsUser(tokens[a]) /\ IsUser(tokens[b]))
            => StrLeq(tokens[a].name, tokens[b].name)

\* C5 (as stated): before the call of a user parameter with key k, every
\* mandated parameter whose name is less than or equal to k has been visited.
C5_VisitedUpToEqual ==
    \A i \in 1..Len(tokens) :
        IsUser(tokens[i]) =>
            \A p \in Mandated :
                StrLeq(as_str(p), tokens[i].name) => VisitedBefore(p, i)

\* C5 (amended): before the call of a user parameter with key k, every
\* mandated parameter whose name is strictly less than k has been visited;
\* when the user keys so far are in order, a mandated parameter whose name
\* is equal to or greater than k has not been visited yet, and it is visited
\* after the user parameter.
C5_VisitedStrictlyBelow ==
    \A i \in 1..Len(tokens) :
        IsUser(tokens[i]) =>
            \A p \in Mandated :
                /\ StrLess(as_str(p), tokens[i].name) => VisitedBefore(p, i)
                /\ (UserKeysSortedUpTo(i) /\ ~StrLess(as_str(p), tokens[i].name))
                       => /\ ~VisitedBefore(p, i)
                          /\ gpc = "done" => VisitedAfter(p, i)

C5_Witness ==
    /\ gpc = "done"
    /\ \E i \in 1..Len(tokens) :
        /\ IsUser(tokens[i])
        /\ tokens[i].name = "oauth_nonce"
        /\ VisitedBefore("consumer_key", i)
        /\ ~VisitedBefore("nonce", i)
        /\ VisitedAfter("nonce", i)

Emitted == { i \in 1..Len(fields) : ~fields[i].skip }

FieldsSorted ==
    \A a, b \in Emitted : a < b => StrLeq(fields[a].name, fields[b].name)

\* C6: if the non-skipped fields are in non-decreasing order of their names,
\* the generated calls up to end() are in non-decreasing order of name.
C6_SortedWithoutSort ==
    FieldsSorted =>
        \A a, b \in 1..Len(tokens) :
            (a < b /\ tokens[a] # EndToken /\ tokens[b] # EndToken)
                => StrLeq(NameOf(tokens[a]), NameOf(tokens[b]))

C6_Witness ==
    /\ gpc = "done"
    /\ Len(fields) = 2
    /\ fields[1].name = "a" /\ ~fields[1].skip
    /\ fields[2].name = "oauth_o" /\ ~fields[2].skip
    /\ Len(tokens) = 11
    /\ NameOf(tokens[1]) = "a"
    /\ NameOf(tokens[5]) = "oauth_o"

Occurrences(t) == { i \in 1..Len(tokens) : tokens[i] = t }

\* C7: for every field list the generated sequence holds the call of each
\* mandated parameter exactly once, in canonical order and before end();
\* end() comes exactly once, last; the sentinel None is never a call.
C7_MandatedOnceInOrder ==
    /\ \A i \in 1..Len(tokens) : tokens[i] # MandatedToken("None")
    /\ \A p \in Mandated : Cardinality(Occurrences(MandatedToken(p))) <= 1
    /\ \A i, j \in 1..8 :
           \A a \in Occurrences(MandatedToken(OAuthParameters[i])) :
               \A b \in Occurrences(MandatedToken(OAuthParameters[j])) :
                   i < j => a < b
    /\ gpc # "done" => Occurrences(EndToken) = {}
    /\ gpc = "done" =>
           /\ \A p \in Mandated :
                  Cardinality(Occurrences(MandatedToken(p))) = 1
           /\ Occurrences(EndToken) = {Len(tokens)}

C7_Witness ==
    /\ gpc = "done"
    /\ Len(fields) = 2
    /\ fields[1].name = "z" /\ ~fields[1].skip
    /\ fields[2].name = "a" /\ ~fields[2].skip
    /\ Len(tokens) = 11
    /\ tokens[11] = EndToken

(***************************************************************************)
(* Construction and consumption of the signer (checked under Spec).        *)
(***************************************************************************)
Rejected == varkey.called /\ ~varkey.ok

\* C11: a key the MAC primitive rejects makes the construction itself fail
\* (new panics at its unwrap): no signer exists afterwards, so nothing is
\* ever fed and no signature is ever produced.
C11_RejectedKeyFailsConstruction ==
    /\ Rejected =>
           /\ signer = "panicked"
           /\ mac = NoMac
           /\ calls = <<>>
           /\ ~signature.done
    /\ signer = "panicked" => Rejected
    /\ Built => (varkey.called /\ varkey.ok /\ mac.key = varkey.key)

C11_Witness ==
    /\ Rejected
    /\ signer = "panicked"
    /\ varkey.key = "cs&"
    /\ secrets.cs = Str("cs")

\* C17: for every consumer secret and optional token secret, both empty
\* included, the key handed to the MAC initialiser is not empty and starts
\* with the text of the consumer secret followed by '&'.
C17_KeyNeverEmpty ==
    varkey.called =>
        /\ Len(varkey.key) >= 1
        /\ SubSeq(varkey.key, 1, Len(Display(secrets.cs)) + 1)
               = Display(secrets.cs) \o "&"

C17_Witness ==
    /\ varkey.called
    /\ secrets.cs = Str("")
    /\ secrets.ts = None
    /\ varkey.key = "&"

\* C12: a signer is used once: only finish yields a signature, over the
\* bytes fed before it, and after finish nothing is fed and nothing is
\* finished again.
C12_SingleUse ==
    /\ [](signature.done <=> signer = "consumed")
    /\ [](signature.done => signature = Hmac(varkey.key, mac.data))
    /\ [][signature.done =>
            (calls' = calls /\ mac' = mac /\ signature' = signature
                /\ signer' = signer)]_vars
    /\ [][signature' # signature =>
            (signer = "live" /\ signer' = "consumed" /\ calls' = calls
                /\ signature' = finish(mac))]_vars

C12_Witness ==
    /\ mode = "free"
    /\ signer = "consumed"
    /\ Len(calls) >= 2
    /\ signature.done
    /\ signature.msg = mac.data

Rank(p) == CHOOSE i \in 1..9 : OAuthParameters[i] = p

\* C14: for every field list, sorted or not, the generator comes to its
\* end: the cursor never moves backwards, every turn of an interleaving
\* loop moves it one step towards None, and end() is reached.
C14_Terminates ==
    /\ [][Rank(next_param') >= Rank(next_param)]_vars
    /\ [][tokens' = Append(tokens, MandatedToken(next_param)) =>
            (next_param # "None" /\ Rank(next_param') = Rank(next_param) + 1)]_vars
    /\ <>(gpc = "done")

C14_Witness ==
    /\ gpc = "done"
    /\ next_param = "None"
    /\ Len(fields) = 2
    /\ fields[1].name = "z" /\ ~fields[1].skip
    /\ fields[2].name = "oauth_nonce" /\ ~fields[2].skip
    /\ tokens[1] = MandatedToken("callback")
    /\ tokens[10] = FieldToken(fields[2])

Without(fs, i) == SubSeq(fs, 1, i - 1) \o SubSeq(fs, i + 1, Len(fs))

\* C15: a field marked skip emits no call, neither its own nor a mandated
\* one, and leaves the cursor where it was; the output is the output for the
\* field list without that field.
C15_SkipIsFrameOnly ==
    /\ [][(gpc = "run" /\ idx <= Len(fields) /\ fields[idx].skip) =>
            (tokens' = tokens /\ next_param' = next_param /\ idx' = idx + 1)]_vars
    /\ [](gpc = "done" =>
            \A i \in 1..Len(fields) :
                fields[i].skip => tokens = to_tokens(Without(fields, i)))

C15_Witness ==
    /\ gpc = "done"
    /\ Len(fields) = 2
    /\ fields[1].name = "z" /\ fields[1].skip
    /\ fields[2].name = "a" /\ ~fields[2].skip
    /\ tokens = to_tokens(<<fields[2]>>)
    /\ tokens[1] = FieldToken(fields[2])

(***************************************************************************)
(* The generated body at run time (ExecSpec).                              *)
(***************************************************************************)
ExecFieldNames == {"a", "z"}

ExecFieldSet ==
    { Field(n, FALSE, o, s, e) : n \in ExecFieldNames, o \in BOOLEAN,
                                 s \in BOOLEAN, e \in BOOLEAN }
    \cup { Field(n, TRUE, TRUE, TRUE, FALSE) : n \in ExecFieldNames }

\* the value of a field: whether the option is Some (a field that is not an
\* option always has a value) and what its skip_if predicate says of it
Values(f) ==
    { [some |-> sm, pred |-> pr] : sm \in BOOLEAN, pr \in BOOLEAN }
    \ ({ [some |-> FALSE, pred |-> pr] : pr \in IF f.option THEN {} ELSE BOOLEAN }
       \cup { [some |-> sm, pred |-> TRUE] : sm \in IF f.skip_if THEN {} ELSE BOOLEAN })

ExecInit ==
    /\ \E n \in 1..MaxExecFields :
        /\ fields \in [1..n -> ExecFieldSet]
        /\ inst \in [1..n -> [some : BOOLEAN, pred : BOOLEAN]]
    /\ \A i \in 1..Len(fields) : inst[i] \in Values(fields[i])
    /\ gpc = "run"
    /\ idx = 1
    /\ next_param = default_param
    /\ tokens = <<>>
    /\ rpc = 1
    /\ results = <<>>
    /\ SignerIdle

\* the field whose statement is the r-th generated call
FieldOf(r) ==
    LET k == Cardinality({ j \in 1..r :
                 tokens[j].call \in {"serialize_parameter",
                                     "serialize_parameter_encoded"} })
    IN  CHOOSE i \in 1..Len(fields) :
            /\ ~fields[i].skip
            /\ Cardinality({ j \in 1..i : ~fields[j].skip }) = k

\* Option::unwrap on the field's value
unwrap(v) == IF v.some THEN "value" ELSE "panic"

\* running a generated statement on the value v of its field
RECURSIVE Run(_, _, _)
Run(guards, unwraps, v) ==
    IF guards = <<>>
    THEN IF unwraps /\ unwrap(v) = "panic" THEN "panic" ELSE "emit"
    ELSE IF Head(guards) = "is_some"
    THEN IF v.some THEN Run(Tail(guards), unwraps, v) ELSE "skip"
    ELSE IF unwraps /\ unwrap(v) = "panic" THEN "panic"
    ELSE IF v.pred THEN "skip"
    ELSE Run(Tail(guards), unwraps, v)

Panicked == \E k \in 1..Len(results) : results[k].outcome = "panic"

Running == gpc = "done" /\ rpc <= Len(tokens) /\ ~Panicked

\* a call of a mandated parameter, or end()
RunCall ==
    /\ Running
    /\ tokens[rpc].call \in {"mandated", "end"}
    /\ rpc' = rpc + 1
    /\ UNCHANGED <<inst, results>>
    /\ UNCHANGED <<signerVars, genVars>>

\* the statement of a field
RunField ==
    /\ Running
    /\ tokens[rpc].call \in {"serialize_parameter", "serialize_parameter_encoded"}
    /\ results' = Append(results,
           [field |-> FieldOf(rpc),
            outcome |-> Run(tokens[rpc].guards, tokens[rpc].unwrap,
                            inst[FieldOf(rpc)])])
    /\ rpc' = rpc + 1
    /\ UNCHANGED inst
    /\ UNCHANGED <<signerVars, genVars>>

ExecNext ==
    \/ SkipField
    \/ Interleave
    \/ EmitField
    \/ Remaining
    \/ End
    \/ RunCall
    \/ RunField

ExecSpec == ExecInit /\ [][ExecNext]_vars

\* C16: the statement of an optional field serializes the parameter exactly
\* when the field is Some and its skip_if predicate, if there is one, is
\* false on the inner value; every unwrap stands under the is_some test, so
\* a None field never panics and never serializes.
C16_OptionGuarded ==
    /\ \A r \in 1..Len(tokens) :
           tokens[r].unwrap =>
               (tokens[r].guards # <<>> /\ Head(tokens[r].guards) = "is_some")
    /\ \A k \in 1..Len(results) :
           LET f == fields[results[k].field]
               v == inst[results[k].field]
           IN  f.option =>
                   /\ results[k].outcome # "panic"
                   /\ results[k].outcome = "emit"
                          <=> (v.some /\ ~(f.skip_if /\ v.pred))
                   /\ ~v.some => results[k].outcome = "skip"

C16_Witness ==
    /\ gpc = "done"
    /\ rpc > Len(tokens)
    /\ Len(results) = 1
    /\ fields[results[1].field].option
    /\ fields[results[1].field].skip_if
    /\ ~inst[results[1].field].some
    /\ results[1].outcome = "skip"

====
